---- MODULE Spec2Model ----
(***************************************************************************)
(* Model of the website-helper worker's fetch handler                      *)
(* (packages/website-helper-worker/src/index.ts).                          *)
(*                                                                         *)
(* One behaviour is one invocation of fetch(request, env, context): Init   *)
(* draws the request and the environment, and every statement of the       *)
(* handler is one action, in the order the code executes them.             *)
(***************************************************************************)
EXTENDS Integers, Sequences, FiniteSets, TLC

VARIABLES
    request,    \* the incoming Request: method, url, headers
    env,        \* the Env bindings of the invocation
    pc,         \* position of the invocation inside fetch
    sentry,     \* the Toucan instance: "none" until constructed, then "ready"
    url,        \* the parsed URL (its pathname), <<>> while not parsed
    crisp,      \* the Crisp client, <<>> while not constructed
    notion,     \* the Notion client, <<>> while not constructed
    calls,      \* route handler invocations, in order, with their arguments
    result,     \* how the invoked route handler settled, <<>> until it does
    thrown,     \* values thrown inside the try block, in order
    captured,   \* arguments of sentry.captureException, in order
    responses,  \* responses returned by fetch, in order
    outcome,    \* "pending", "returned" (promise fulfilled) or "rejected"
    history     \* what the earlier invocations of fetch did, in order

vars == <<request, env, pc, sentry, url, crisp, notion, calls, result,
          thrown, captured, responses, outcome, history>>

----------------------------------------------------------------------------
(* Values *)

\* Number of invocations of fetch in one behaviour
MaxInvocations == 2

\* JavaScript's undefined, for an absent binding of env
Undefined == "<undefined>"

Methods == {"OPTIONS", "POST", "GET"}

\* request.url as the sequence of pieces a URL parser scans: an origin
\* (scheme and host), path segments, then a query and a fragment.
Origin == "https://worker.example"
QueryTokens == {"?utm=1", "?next="}
HashTokens == {"#form"}

Urls ==
    { <<Origin, "/api", "/conductor">>,
      <<Origin, "/api", "/contact-us">>,
      <<Origin, "/api", "/conductor", "?utm=1">>,
      <<Origin, "/api", "/contact-us", "?utm=1">>,
      <<Origin, "/api", "/contact-us", "#form">>,
      <<Origin, "/api", "/conductor", "/">>,
      <<Origin, "/API", "/conductor">>,
      <<Origin, "/v1", "/api", "/conductor">>,
      <<Origin, "/api", "?next=", "/api", "/conductor">>,
      <<Origin, "/api">>,
      <<Origin>>,
      <<"/api", "/conductor">>,
      <<>> }

\* request.headers: a map from lower-case header name to value
RequestHeaders ==
    { <<>>,
      ("origin" :> "https://the-guild.dev"),
      ("origin" :> "https://the-guild.dev")
          @@ ("access-control-request-headers" :> "x-requested-with") }

Requests == [method : Methods, url : Urls, headers : RequestHeaders]

Envs ==
    [SENTRY_DSN : {"dsn"},
     CRISP_TOKEN : {Undefined, "crisp-token"},
     CRISP_WEBSITE_ID : {"crisp-site"},
     NOTION_TOKEN : {Undefined, "notion-token"},
     NOTION_CONDUCTOR_DATABASE_ID : {Undefined, "db-conductor"},
     NOTION_CONTACT_US_DATABASE_ID : {Undefined, "db-contact-us"}]

\* A thrown value.  message is <<>> when reading .message yields undefined
\* and <<m>> when it yields the string m; kind "null" is a thrown null or
\* undefined, on which a property read is itself a TypeError.
ThrownValues ==
    { [kind |-> "Error", message |-> <<"Unexpected token } in JSON">>],
      [kind |-> "Error", message |-> <<"API token is invalid.">>],
      [kind |-> "Error", message |-> <<"">>],
      [kind |-> "string", message |-> <<>>],
      [kind |-> "null", message |-> <<>>] }

InvalidUrl == [kind |-> "Error", message |-> <<"Invalid URL">>]

----------------------------------------------------------------------------
(* Platform functions used by fetch *)

\* new URL(request.url): the parsed URL, or <<>> when the constructor throws
\* (the string is not an absolute URL).  pathname is the path up to the
\* first query or fragment, "/" when the path is empty.
\* Variant of PathOf that keeps the query and the fragment in the path
RECURSIVE PathOf_WithSearch(_)
PathOf_WithSearch(tokens) ==
    IF tokens = <<>>
    THEN ""
    ELSE Head(tokens) \o PathOf_WithSearch(Tail(tokens))

RECURSIVE PathOf(_)
PathOf(tokens) ==
    IF tokens = <<>> \/ Head(tokens) \in QueryTokens \cup HashTokens
    THEN ""
    ELSE Head(tokens) \o PathOf(Tail(tokens))

NewURL(u) ==
    IF u = <<>> \/ Head(u) # Origin
    THEN <<>>
    ELSE [pathname |-> IF PathOf(Tail(u)) = "" THEN "/" ELSE PathOf(Tail(u))]

\* Header names are case-insensitive: Headers stores them in lower case.
LowerCaseTable ==
    ("Access-Control-Allow-Origin" :> "access-control-allow-origin")
    @@ ("Access-Control-Allow-Methods" :> "access-control-allow-methods")
    @@ ("Access-Control-Allow-Headers" :> "access-control-allow-headers")
    @@ ("Content-Type" :> "content-type")
    @@ ("contentType" :> "contenttype")

ToLowerCase(name) ==
    IF name \in DOMAIN LowerCaseTable THEN LowerCaseTable[name] ELSE name

\* new Headers(object)
NewHeaders(obj) ==
    [n \in {ToLowerCase(k) : k \in DOMAIN obj} |->
        obj[CHOOSE k \in DOMAIN obj : ToLowerCase(k) = n]]

\* new Response(body, init).  body is <<>> for null and <<text>> for a
\* string; init may carry status and headers.  The status defaults to 200,
\* and a string body gets the content type text/plain unless init names one.
NewResponse(body, init) ==
    LET status == IF "status" \in DOMAIN init THEN init.status ELSE 200
        given  == IF "headers" \in DOMAIN init THEN NewHeaders(init.headers)
                  ELSE <<>>
        hdrs   == IF body # <<>> /\ "content-type" \notin DOMAIN given
                  THEN given @@ ("content-type" :> "text/plain;charset=UTF-8")
                  ELSE given
    IN  [status |-> status, headers |-> hdrs, body |-> body]

\* JSON.stringify({ error: message }): a property whose value is undefined
\* is left out of the object.  (No message of the model needs escaping.)
JSONStringifyError(message) ==
    IF message = <<>> THEN "{}"
    ELSE "{\"error\":\"" \o message[1] \o "\"}"

----------------------------------------------------------------------------
(* Collaborators of this package whose source is not part of the tree *)

\* buildResponseCorsHeaders(request.headers): an allowed-origin policy for
\* the declared origin and the list of allowed methods and headers.
buildResponseCorsHeaders(headers) ==
    ("Access-Control-Allow-Origin" :>
        (IF "origin" \in DOMAIN headers THEN headers["origin"] ELSE "*"))
    @@ ("Access-Control-Allow-Methods" :> "GET, POST, OPTIONS")
    @@ ("Access-Control-Allow-Headers" :>
        (IF "access-control-request-headers" \in DOMAIN headers
         THEN headers["access-control-request-headers"] ELSE "Content-Type"))

\* createCrispClient({ token, websiteId }): a client bound to its options
createCrispClient(options) ==
    [client |-> "crisp", token |-> options.token, websiteId |-> options.websiteId]

\* Responses a route handler can produce on its own
HandlerResponses ==
    { [status |-> 200,
       headers |-> ("content-type" :> "application/json")
                   @@ ("access-control-allow-origin" :> "*"),
       body |-> <<"{\"ok\":true}">>],
      [status |-> 201, headers |-> <<>>, body |-> <<>>],
      [status |-> 400,
       headers |-> ("content-type" :> "application/json"),
       body |-> <<"{\"error\":\"invalid email\"}">>] }

----------------------------------------------------------------------------
(* fetch(request, env, context) *)

Init ==
    /\ request \in Requests
    /\ env \in Envs
    /\ pc = "toucan"
    /\ sentry = "none"
    /\ url = <<>>
    /\ crisp = <<>>
    /\ notion = <<>>
    /\ calls = <<>>
    /\ result = <<>>
    /\ thrown = <<>>
    /\ captured = <<>>
    /\ responses = <<>>
    /\ outcome = "pending"
    /\ history = <<>>

\* return r: the promise of fetch is fulfilled with r
Return(r) ==
    /\ responses' = Append(responses, r)
    /\ outcome' = "returned"
    /\ pc' = "done"

\* an exception inside the try block: control moves to the catch clause
Throw(e) ==
    /\ thrown' = Append(thrown, e)
    /\ pc' = "catch"

\* const sentry = new Toucan({ dsn, context, request })
NewToucan ==
    /\ pc = "toucan"
    /\ sentry' = "ready"
    /\ pc' = "url"
    /\ UNCHANGED <<request, env, history, url, crisp, notion, calls, result, thrown,
                   captured, responses, outcome>>

\* const url = new URL(request.url)
ParseUrl ==
    /\ pc = "url"
    /\ IF NewURL(request.url) = <<>>
       THEN /\ Throw(InvalidUrl)
            /\ url' = url
       ELSE /\ url' = NewURL(request.url)
            /\ pc' = "crisp"
            /\ thrown' = thrown
    /\ UNCHANGED <<request, env, history, sentry, crisp, notion, calls, result,
                   captured, responses, outcome>>

\* const crisp = createCrispClient({ token, websiteId })
CreateCrispClient ==
    /\ pc = "crisp"
    /\ crisp' = createCrispClient([token |-> env.CRISP_TOKEN,
                                   websiteId |-> env.CRISP_WEBSITE_ID])
    /\ pc' = "notion"
    /\ UNCHANGED <<request, env, history, sentry, url, notion, calls, result, thrown,
                   captured, responses, outcome>>

\* const notion = new Client({ auth: env.NOTION_TOKEN })
NewNotionClient ==
    /\ pc = "notion"
    /\ notion' = [client |-> "notion", auth |-> env.NOTION_TOKEN]
    /\ pc' = "route"
    /\ UNCHANGED <<request, env, history, sentry, url, crisp, calls, result, thrown,
                   captured, responses, outcome>>

\* if (request.method === 'OPTIONS') return new Response(null, { headers })
Preflight ==
    /\ pc = "route"
    /\ request.method = "OPTIONS"
    /\ Return(NewResponse(<<>>,
           [headers |-> buildResponseCorsHeaders(request.headers)]))
    /\ UNCHANGED <<request, env, history, sentry, url, crisp, notion, calls, result,
                   thrown, captured>>

\* Variant of IsConductor that matches on the pathname alone
IsConductor_AnyMethod == url.pathname = "/api/conductor"

IsConductor == request.method = "POST" /\ url.pathname = "/api/conductor"

IsContactUs == request.method = "POST" /\ url.pathname = "/api/contact-us"

\* Variant of CallConductorContact that passes the contact-us database id
CallConductorContact_OtherDatabase ==
    /\ pc = "route"
    /\ request.method # "OPTIONS"
    /\ IsConductor
    /\ calls' = Append(calls,
           [handler |-> "handleConductorContact",
            args |-> [request |-> request, notion |-> notion,
                      notionDatabaseId |-> env.NOTION_CONTACT_US_DATABASE_ID]])
    /\ pc' = "conductor"
    /\ UNCHANGED <<request, env, history, sentry, url, crisp, notion, result, thrown,
                   captured, responses, outcome>>

\* if (POST /api/conductor) ... handleConductorContact({ request, notion,
\* notionDatabaseId })
CallConductorContact ==
    /\ pc = "route"
    /\ request.method # "OPTIONS"
    /\ IsConductor
    /\ calls' = Append(calls,
           [handler |-> "handleConductorContact",
            args |-> [request |-> request, notion |-> notion,
                      notionDatabaseId |-> env.NOTION_CONDUCTOR_DATABASE_ID]])
    /\ pc' = "conductor"
    /\ UNCHANGED <<request, env, history, sentry, url, crisp, notion, result, thrown,
                   captured, responses, outcome>>

\* Variant of CallContactUs that leaves the Crisp client out of the call
CallContactUs_NoCrisp ==
    /\ pc = "route"
    /\ request.method # "OPTIONS"
    /\ ~IsConductor
    /\ IsContactUs
    /\ calls' = Append(calls,
           [handler |-> "handleContactUs",
            args |-> [request |-> request, notion |-> notion,
                      notionDatabaseId |-> env.NOTION_CONTACT_US_DATABASE_ID]])
    /\ pc' = "contactUs"
    /\ UNCHANGED <<request, env, history, sentry, url, crisp, notion, result, thrown,
                   captured, responses, outcome>>

\* if (POST /api/contact-us) ... handleContactUs({ request, crisp, notion,
\* notionDatabaseId })
CallContactUs ==
    /\ pc = "route"
    /\ request.method # "OPTIONS"
    /\ ~IsConductor
    /\ IsContactUs
    /\ calls' = Append(calls,
           [handler |-> "handleContactUs",
            args |-> [request |-> request, crisp |-> crisp, notion |-> notion,
                      notionDatabaseId |-> env.NOTION_CONTACT_US_DATABASE_ID]])
    /\ pc' = "contactUs"
    /\ UNCHANGED <<request, env, history, sentry, url, crisp, notion, result, thrown,
                   captured, responses, outcome>>

\* How the promise of a route handler can settle: fulfilled with a
\* response, or rejected with a thrown value.
HandlerResults ==
    [state : {"fulfilled"}, value : HandlerResponses]
    \cup [state : {"rejected"}, value : ThrownValues]

\* handleConductorContact runs and its promise settles
handleConductorContact ==
    /\ pc = "conductor"
    /\ \E r \in HandlerResults : result' = r
    /\ pc' = "await"
    /\ UNCHANGED <<request, env, history, sentry, url, crisp, notion, calls, thrown,
                   captured, responses, outcome>>

\* handleContactUs runs and its promise settles
handleContactUs ==
    /\ pc = "contactUs"
    /\ \E r \in HandlerResults : result' = r
    /\ pc' = "await"
    /\ UNCHANGED <<request, env, history, sentry, url, crisp, notion, calls, thrown,
                   captured, responses, outcome>>

\* Variant of ReturnAwait that routes the request once more after a first
\* rejection of the handler
ReturnAwait_RetriesOnce ==
    /\ pc = "await"
    /\ IF result.state = "fulfilled"
       THEN /\ Return(result.value)
            /\ thrown' = thrown
       ELSE IF thrown = <<>>
       THEN /\ thrown' = Append(thrown, result.value)
            /\ pc' = "route"
            /\ UNCHANGED <<responses, outcome>>
       ELSE /\ Throw(result.value)
            /\ UNCHANGED <<responses, outcome>>
    /\ UNCHANGED <<request, env, history, sentry, url, crisp, notion, calls,
                   result, captured>>

\* Variant of ReturnAwait that adds the CORS headers to the handler's response
ReturnAwait_AddsCors ==
    /\ pc = "await"
    /\ IF result.state = "fulfilled"
       THEN /\ Return([result.value EXCEPT !.headers =
                    NewHeaders(buildResponseCorsHeaders(request.headers)) @@ @])
            /\ thrown' = thrown
       ELSE /\ Throw(result.value)
            /\ UNCHANGED <<responses, outcome>>
    /\ UNCHANGED <<request, env, history, sentry, url, crisp, notion, calls, result,
                   captured>>

\* return await <handler call>: the handler's response is returned as it
\* is; a rejection is thrown inside the try block.
ReturnAwait ==
    /\ pc = "await"
    /\ IF result.state = "fulfilled"
       THEN /\ Return(result.value)
            /\ thrown' = thrown
       ELSE /\ Throw(result.value)
            /\ UNCHANGED <<responses, outcome>>
    /\ UNCHANGED <<request, env, history, sentry, url, crisp, notion, calls, result,
                   captured>>

\* Variant of NotFound that reports the routing miss to the error collector
NotFound_Reported ==
    /\ pc = "route"
    /\ request.method # "OPTIONS"
    /\ ~IsConductor
    /\ ~IsContactUs
    /\ captured' = Append(captured, [kind |-> "Error", message |-> <<"not found">>])
    /\ Return(NewResponse(<<JSONStringifyError(<<"not found">>)>>,
           [status |-> 404,
            headers |-> ("contentType" :> "application/json")
                        @@ buildResponseCorsHeaders(request.headers)]))
    /\ UNCHANGED <<request, env, history, sentry, url, crisp, notion, calls, result,
                   thrown>>

\* return new Response(JSON.stringify({ error: 'not found' }), { status: 404,
\* headers: { ...cors, contentType: 'application/json' } })
NotFound ==
    /\ pc = "route"
    /\ request.method # "OPTIONS"
    /\ ~IsConductor
    /\ ~IsContactUs
    /\ Return(NewResponse(<<JSONStringifyError(<<"not found">>)>>,
           [status |-> 404,
            headers |-> ("contentType" :> "application/json")
                        @@ buildResponseCorsHeaders(request.headers)]))
    /\ UNCHANGED <<request, env, history, sentry, url, crisp, notion, calls, result,
                   thrown, captured>>

\* Variant of CaptureException that swallows the error without a report
CaptureException_Swallowed ==
    /\ pc = "catch"
    /\ pc' = "respond"
    /\ UNCHANGED <<request, env, history, sentry, url, crisp, notion, calls, result,
                   thrown, captured, responses, outcome>>

\* catch (e) { sentry.captureException(e)
CaptureException ==
    /\ pc = "catch"
    /\ captured' = Append(captured, thrown[Len(thrown)])
    /\ pc' = "respond"
    /\ UNCHANGED <<request, env, history, sentry, url, crisp, notion, calls, result,
                   thrown, responses, outcome>>

\* Variant of ErrorResponse that attaches the CORS headers to the response
ErrorResponse_WithCors ==
    /\ pc = "respond"
    /\ LET e == thrown[Len(thrown)]
       IN  IF e.kind = "null"
           THEN /\ outcome' = "rejected"
                /\ pc' = "done"
                /\ responses' = responses
           ELSE Return(NewResponse(<<JSONStringifyError(e.message)>>,
                    [status |-> 500,
                     headers |-> buildResponseCorsHeaders(request.headers)]))
    /\ UNCHANGED <<request, env, history, sentry, url, crisp, notion, calls,
                   result, thrown, captured>>

\* Variant of ErrorResponse that answers with a fixed message
ErrorResponse_FixedMessage ==
    /\ pc = "respond"
    /\ Return(NewResponse(<<JSONStringifyError(<<"Internal Server Error">>)>>,
                          [status |-> 500]))
    /\ UNCHANGED <<request, env, history, sentry, url, crisp, notion, calls, result,
                   thrown, captured>>

\* return new Response(JSON.stringify({ error: (e as Error).message }),
\* { status: 500 }).  Reading .message of null or undefined is a TypeError
\* inside the catch clause, which rejects the promise of fetch.
ErrorResponse ==
    /\ pc = "respond"
    /\ LET e == thrown[Len(thrown)]
       IN  IF e.kind = "null"
           THEN /\ outcome' = "rejected"
                /\ pc' = "done"
                /\ responses' = responses
           ELSE Return(NewResponse(<<JSONStringifyError(e.message)>>,
                                   [status |-> 500]))
    /\ UNCHANGED <<request, env, history, sentry, url, crisp, notion, calls, result,
                   thrown, captured>>

\* What an invocation did, as its caller and its collaborators saw it
Observed ==
    [responses |-> responses, outcome |-> outcome, calls |-> calls,
     captured |-> captured, result |-> result]

\* Variant of Invoke in which the record of handler calls outlives the
\* invocation
Invoke_SharedCalls ==
    /\ pc = "done"
    /\ Len(history) + 1 < MaxInvocations
    /\ history' = Append(history, Observed)
    /\ pc' = "toucan"
    /\ sentry' = "none"
    /\ url' = <<>>
    /\ crisp' = <<>>
    /\ notion' = <<>>
    /\ result' = <<>>
    /\ thrown' = <<>>
    /\ captured' = <<>>
    /\ responses' = <<>>
    /\ outcome' = "pending"
    /\ UNCHANGED <<request, env, calls>>

\* The platform calls fetch again with an identical request and environment.
\* Every binding of fetch (sentry, url, crisp, notion) is a const local of
\* the call and the module keeps no state of its own, so the invocation
\* starts from nothing.
Invoke ==
    /\ pc = "done"
    /\ Len(history) + 1 < MaxInvocations
    /\ history' = Append(history, Observed)
    /\ pc' = "toucan"
    /\ sentry' = "none"
    /\ url' = <<>>
    /\ crisp' = <<>>
    /\ notion' = <<>>
    /\ calls' = <<>>
    /\ result' = <<>>
    /\ thrown' = <<>>
    /\ captured' = <<>>
    /\ responses' = <<>>
    /\ outcome' = "pending"
    /\ UNCHANGED <<request, env>>

Next ==
    \/ Invoke
    \/ NewToucan
    \/ ParseUrl
    \/ CreateCrispClient
    \/ NewNotionClient
    \/ Preflight
    \/ CallConductorContact
    \/ handleConductorContact
    \/ CallContactUs
    \/ handleContactUs
    \/ ReturnAwait
    \/ NotFound
    \/ CaptureException
    \/ ErrorResponse

Spec == Init /\ [][Next]_vars

\* Every started step of fetch completes and an invoked handler settles.
FairSpec == Spec /\ WF_vars(Next)

----------------------------------------------------------------------------
(* Properties *)

\* The invocation has ended: the promise of fetch is settled.
Done == pc = "done"

\* The invocation has passed the routing conditions with a parsed URL.
Routed == url # <<>> /\ pc \in {"conductor", "contactUs", "await", "catch",
                                "respond", "done"}

\* The error field of a JSON body { "error": <string> }: <<m>> when the body
\* is such an object with the string m, <<>> when the field is missing.
Messages ==
    {"not found", "Invalid URL", "Internal Server Error"}
    \cup {e.message[1] : e \in {t \in ThrownValues : t.message # <<>>}}

ErrorFieldOf(body) ==
    IF body # <<>> /\ \E m \in Messages : body[1] = "{\"error\":\"" \o m \o "\"}"
    THEN <<CHOOSE m \in Messages : body[1] = "{\"error\":\"" \o m \o "\"}">>
    ELSE <<>>

\* The headers h carry every CORS header computed from the request headers.
HasCorsHeaders(h) ==
    LET cors == NewHeaders(buildResponseCorsHeaders(request.headers))
    IN  \A n \in DOMAIN cors : n \in DOMAIN h /\ h[n] = cors[n]

C2_UnmatchedIsNotFound ==
    (Done /\ url # <<>> /\ request.method # "OPTIONS"
          /\ ~(request.method = "POST" /\ url.pathname = "/api/conductor")
          /\ ~(request.method = "POST" /\ url.pathname = "/api/contact-us")) =>
        /\ outcome = "returned"
        /\ Len(responses) = 1
        /\ responses[1].status = 404
        /\ responses[1].body = <<"{\"error\":\"not found\"}">>
        /\ calls = <<>>
        /\ result = <<>>

\* C2 witness: GET /api/conductor has been answered
C2_Witness ==
    /\ Done
    /\ request.method = "GET"
    /\ url # <<>> /\ url.pathname = "/api/conductor"
    /\ Len(responses) = 1 /\ responses[1].status = 404

\* C3: when a step of the try block (a route handler or the URL parser)
\* throws an error with message m, the invocation ends with a 500 response
\* whose JSON body has the error field m.
C3_ThrownMessageIs500 ==
    (Done /\ thrown # <<>> /\ thrown[1].message # <<>>) =>
        /\ outcome = "returned"
        /\ Len(responses) = 1
        /\ responses[1].status = 500
        /\ ErrorFieldOf(responses[1].body) = thrown[1].message

\* C3 witness: handleContactUs threw an error with a message and the 500
\* response has been returned
C3_Witness ==
    /\ Done
    /\ Len(calls) = 1 /\ calls[1].handler = "handleContactUs"
    /\ result # <<>> /\ result.state = "rejected"
    /\ result.value.message = <<"API token is invalid.">>
    /\ Len(responses) = 1 /\ responses[1].status = 500

\* C4: once an error is thrown, the error collector is called exactly once,
\* with the thrown error, no later than the response: no state has a second
\* report, and no state has a response or a settled promise after a thrown
\* error without the report of that error.
C4_ThrownIsReportedOnce ==
    /\ Len(thrown) <= 1
    /\ Len(captured) <= 1
    /\ (thrown # <<>> /\ (Done \/ responses # <<>> \/ outcome # "pending")) =>
           captured = <<thrown[1]>>

\* C4 witness: a handler threw, the 500 response is out and one report exists
C4_Witness ==
    /\ Done
    /\ result # <<>> /\ result.state = "rejected"
    /\ Len(captured) = 1
    /\ Len(responses) = 1 /\ responses[1].status = 500

\* C5: the error collector is never called in an invocation without a
\* thrown error: not on 404, not on OPTIONS, not when a handler returns.
C5_NoReportWithoutThrow ==
    thrown = <<>> => captured = <<>>

\* C5 witness: a 404, a preflight or a handler's response was returned
\* without any throw
C5_Witness ==
    /\ Done
    /\ thrown = <<>>
    /\ Len(responses) = 1
    /\ \/ responses[1].status = 404
       \/ request.method = "OPTIONS"
       \/ (result # <<>> /\ result.state = "fulfilled")

\* C6: POST /api/conductor invokes handleConductorContact exactly once, with
\* the request, the Notion client and env.NOTION_CONDUCTOR_DATABASE_ID, and
\* nothing else: no Crisp client, no handleContactUs, and not the contact-us
\* identifier where the two identifiers differ.
C6_ConductorDispatch ==
    (Routed /\ request.method = "POST" /\ url.pathname = "/api/conductor") =>
        /\ Len(calls) = 1
        /\ calls[1].handler = "handleConductorContact"
        /\ DOMAIN calls[1].args = {"request", "notion", "notionDatabaseId"}
        /\ calls[1].args.request = request
        /\ calls[1].args.notion = [client |-> "notion", auth |-> env.NOTION_TOKEN]
        /\ calls[1].args.notionDatabaseId = env.NOTION_CONDUCTOR_DATABASE_ID
        /\ (env.NOTION_CONDUCTOR_DATABASE_ID # env.NOTION_CONTACT_US_DATABASE_ID
            => calls[1].args.notionDatabaseId # env.NOTION_CONTACT_US_DATABASE_ID)

\* C6 witness: POST /api/conductor with two different identifiers configured
\* has run to its end
C6_Witness ==
    /\ Done
    /\ request.method = "POST"
    /\ url # <<>> /\ url.pathname = "/api/conductor"
    /\ env.NOTION_CONDUCTOR_DATABASE_ID = "db-conductor"
    /\ env.NOTION_CONTACT_US_DATABASE_ID = "db-contact-us"
    /\ Len(calls) = 1

\* C7: POST /api/contact-us invokes handleContactUs exactly once, with the
\* request, the Crisp client, the Notion client and
\* env.NOTION_CONTACT_US_DATABASE_ID; handleConductorContact is not invoked
\* and the conductor identifier is not used where the identifiers differ.
C7_ContactUsDispatch ==
    (Routed /\ request.method = "POST" /\ url.pathname = "/api/contact-us") =>
        /\ Len(calls) = 1
        /\ calls[1].handler = "handleContactUs"
        /\ DOMAIN calls[1].args =
               {"request", "crisp", "notion", "notionDatabaseId"}
        /\ calls[1].args.request = request
        /\ calls[1].args.crisp =
               [client |-> "crisp", token |-> env.CRISP_TOKEN,
                websiteId |-> env.CRISP_WEBSITE_ID]
        /\ calls[1].args.notion = [client |-> "notion", auth |-> env.NOTION_TOKEN]
        /\ calls[1].args.notionDatabaseId = env.NOTION_CONTACT_US_DATABASE_ID
        /\ (env.NOTION_CONDUCTOR_DATABASE_ID # env.NOTION_CONTACT_US_DATABASE_ID
            => calls[1].args.notionDatabaseId # env.NOTION_CONDUCTOR_DATABASE_ID)

\* C7 witness: POST /api/contact-us with two different identifiers
\* configured has run to its end
C7_Witness ==
    /\ Done
    /\ request.method = "POST"
    /\ url # <<>> /\ url.pathname = "/api/contact-us"
    /\ env.NOTION_CONDUCTOR_DATABASE_ID = "db-conductor"
    /\ env.NOTION_CONTACT_US_DATABASE_ID = "db-contact-us"
    /\ Len(calls) = 1

\* The response of a routing miss: the router answered 404 without a throw
\* and without invoking a handler.
IsRoutingMiss ==
    /\ Done /\ thrown = <<>> /\ calls = <<>> /\ request.method # "OPTIONS"
    /\ Len(responses) = 1 /\ responses[1].status = 404

\* C8: the 404 routing-miss response carries the CORS headers computed from
\* the request headers and a Content-Type header with value application/json.
C8_NotFoundIsJson ==
    IsRoutingMiss =>
        /\ HasCorsHeaders(responses[1].headers)
        /\ "content-type" \in DOMAIN responses[1].headers
        /\ responses[1].headers["content-type"] = "application/json"

\* C9: every 500 response of the error path has a JSON body whose error
\* field is a string, also when the thrown value carries no message.
C9_ErrorFieldAlwaysString ==
    (thrown # <<>> /\ responses # <<>> /\ responses[1].status = 500) =>
        ErrorFieldOf(responses[1].body) # <<>>

\* C10: when the invoked route handler returns a response without throwing,
\* fetch returns exactly that response: same status, headers and body.
C10_HandlerResponseUntouched ==
    (Done /\ result # <<>> /\ result.state = "fulfilled") =>
        /\ outcome = "returned"
        /\ responses = <<result.value>>

\* C10 witness: a handler returned a response without any header and fetch
\* has returned
C10_Witness ==
    /\ Done
    /\ result # <<>> /\ result.state = "fulfilled"
    /\ result.value.headers = <<>>
    /\ Len(responses) = 1

\* The environment values the matched route needs: the Notion token and
\* the route's database id, and for contact-us the Crisp token as well.
RequiredAbsent ==
    \/ /\ url.pathname = "/api/conductor"
       /\ Undefined \in {env.NOTION_TOKEN, env.NOTION_CONDUCTOR_DATABASE_ID}
    \/ /\ url.pathname = "/api/contact-us"
       /\ Undefined \in {env.NOTION_TOKEN, env.CRISP_TOKEN,
                         env.NOTION_CONTACT_US_DATABASE_ID}

\* C11: when a value of the environment that the matched route requires is
\* absent, the invocation is fatal: the error collector is called and the
\* response is 500; in particular the response is never the success response
\* of a handler that was handed the absent value.
C11_AbsentConfigIsFatal ==
    (Done /\ url # <<>> /\ request.method = "POST" /\ RequiredAbsent) =>
        /\ captured # <<>>
        /\ Len(responses) = 1
        /\ responses[1].status = 500
        /\ ~(result # <<>> /\ result.state = "fulfilled"
             /\ responses = <<result.value>>)

C13_PreflightBeforeClients ==
    request.method = "OPTIONS" =>
        /\ url = <<>>
        /\ crisp = <<>>
        /\ notion = <<>>
        /\ \A i \in DOMAIN responses : responses[i].status # 500

\* The response of the error path: the catch clause answered a throw.
IsErrorResponse ==
    Done /\ thrown # <<>> /\ Len(responses) = 1 /\ responses[1].status = 500

\* The response of a preflight request that reached the OPTIONS test.
IsPreflightResponse ==
    Done /\ thrown = <<>> /\ request.method = "OPTIONS" /\ Len(responses) = 1

\* The headers h carry none of the CORS headers.
HasNoCorsHeaders(h) ==
    DOMAIN h \cap DOMAIN NewHeaders(buildResponseCorsHeaders(request.headers)) = {}

\* C14 as stated: the 500 response carries no CORS headers and no
\* content-type header, and the 404 and OPTIONS responses carry the CORS
\* headers.
C14_ErrorResponseHasNoHeaders ==
    /\ IsErrorResponse =>
           /\ HasNoCorsHeaders(responses[1].headers)
           /\ "content-type" \notin DOMAIN responses[1].headers
    /\ IsRoutingMiss => HasCorsHeaders(responses[1].headers)
    /\ IsPreflightResponse => HasCorsHeaders(responses[1].headers)

\* C14 amended: the 500 response carries no CORS headers and no header set by
\* the router; its only header is the content type text/plain;charset=UTF-8
\* that the Response constructor gives a string body.  The 404 and OPTIONS
\* responses carry the CORS headers.
C14_ErrorResponseHasNoCors ==
    /\ IsErrorResponse =>
           /\ HasNoCorsHeaders(responses[1].headers)
           /\ responses[1].headers =
                  ("content-type" :> "text/plain;charset=UTF-8")
    /\ IsRoutingMiss => HasCorsHeaders(responses[1].headers)
    /\ IsPreflightResponse => HasCorsHeaders(responses[1].headers)

\* C14 witness: a request with an Origin header ended in the 500 response
C14_Witness ==
    /\ IsErrorResponse
    /\ "origin" \in DOMAIN request.headers
    /\ result # <<>> /\ result.state = "rejected"

\* C15: in one invocation at most one route handler is invoked, at most
\* once; after a handler throws there is no further call and no 404
\* response; an OPTIONS request invokes no handler.
C15_AtMostOneHandlerCall ==
    /\ Len(calls) <= 1
    /\ Len(responses) <= 1
    /\ request.method = "OPTIONS" => calls = <<>>
    /\ (result # <<>> /\ result.state = "rejected") =>
           /\ Len(calls) = 1
           /\ \A i \in DOMAIN responses : responses[i].status # 404

\* C15 witness: a handler threw and the invocation has ended
C15_Witness ==
    /\ Done
    /\ result # <<>> /\ result.state = "rejected"
    /\ Len(thrown) = 1
    /\ Len(calls) = 1

\* The kinds of response fetch is meant to return
IsKnownResponse(r) ==
    \/ r.status = 404
    \/ r.status = 500
    \/ r.status \in 200..299 /\ request.method = "OPTIONS"
    \/ result # <<>> /\ result.state = "fulfilled" /\ r = result.value

\* C16: every invocation that ends has returned exactly one response, of
\* kind preflight, handler's own, 404 or 500; the promise of fetch is never
\* rejected, also when the request URL is malformed.
C16_AlwaysOneResponse ==
    Done =>
        /\ outcome = "returned"
        /\ Len(responses) = 1
        /\ IsKnownResponse(responses[1])

\* The path segments of a request URL: the pieces after the origin, up to
\* the query or the fragment.
RECURSIVE Segments(_)
Segments(tokens) ==
    IF tokens = <<>> \/ Head(tokens) \in QueryTokens \cup HashTokens
    THEN <<>>
    ELSE <<Head(tokens)>> \o Segments(Tail(tokens))

\* C17: routing is by exact equality on the pathname alone: a POST whose
\* path is /api/conductor or /api/contact-us is dispatched to its handler
\* whatever the query string, and a POST to any other path (different case,
\* trailing slash, prefix) gets the 404 response and no handler.
C17_ExactPathnameMatch ==
    (Done /\ url # <<>> /\ request.method = "POST") =>
        LET path == Segments(Tail(request.url))
        IN  /\ path = <<"/api", "/conductor">> =>
                (Len(calls) = 1 /\ calls[1].handler = "handleConductorContact")
            /\ path = <<"/api", "/contact-us">> =>
                (Len(calls) = 1 /\ calls[1].handler = "handleContactUs")
            /\ path \notin {<<"/api", "/conductor">>, <<"/api", "/contact-us">>} =>
                (calls = <<>> /\ Len(responses) = 1 /\ responses[1].status = 404)

\* C17 witness: POST /api/conductor?utm=1 was dispatched to its handler
C17_Witness ==
    /\ Done
    /\ request.method = "POST"
    /\ request.url = <<Origin, "/api", "/conductor", "?utm=1">>
    /\ Len(calls) = 1 /\ calls[1].handler = "handleConductorContact"

====
